---- MODULE Spec2Model ----
(***************************************************************************)
(* Model of the download scheduler of youtubemaster:                       *)
(* src/src/youtubemaster/models/DownloadManager.py (class DownloadManager  *)
(* and the DownloadThread workers it starts).                              *)
(*                                                                         *)
(* The DownloadManager is a QObject living in the GUI thread.  The public  *)
(* operations (add_download, cancel_download, dismiss_error,               *)
(* set_max_concurrent) are called from that thread; the signals a          *)
(* DownloadThread emits from its own thread are queued to the GUI thread   *)
(* and run there as _on_complete / _on_error, one at a time.  Every        *)
(* handler therefore runs to completion and is one action here; a signal   *)
(* already emitted stays in flight (the thread's sig) until it is          *)
(* delivered, also when the job it belongs to has been cancelled in        *)
(* between.                                                                *)
(***************************************************************************)
EXTENDS Integers, Sequences, FiniteSets, Bags, TLC

(***************************************************************************)
(* Bounds and input domains                                                *)
(***************************************************************************)

\* Number of DownloadThread objects that are no longer in _active but can
\* still be heard (running, or finished with a signal still queued).  A
\* handler that would leave one more behind is not taken.
MaxDetached == 1

\* Video ids the user submits.
VideoIds == {"A", "B", "C"}

\* The shapes of URL a user may type for one video:
\*   watch: https://www.youtube.com/watch?v=<id>&t=10
\*   short: https://youtu.be/<id>
\*   bare : <id>
Forms == {"watch", "short", "bare"}

RawUrls == [form : Forms, id : VideoIds]

\* Values passed to set_max_concurrent (the spin box allows 1..5, the
\* method clamps anything else).
LimitInputs == {0, 2, 6}

\* Python's None as the value of an _active entry with no thread attached.
None == [url |-> <<>>, running |-> FALSE, sig |-> <<>>]

(***************************************************************************)
(* Helpers for Python lists and dicts                                      *)
(***************************************************************************)

Min(a, b) == IF a < b THEN a ELSE b

Max(a, b) == IF a > b THEN a ELSE b

\* x in list
InList(x, l) == \E i \in 1..Len(l) : l[i] = x

\* list.remove(x): drops the first occurrence of x
RECURSIVE ListRemove(_, _)
ListRemove(l, x) ==
    IF l = <<>> THEN <<>>
    ELSE IF Head(l) = x THEN Tail(l)
    ELSE <<Head(l)>> \o ListRemove(Tail(l), x)

\* dict.pop(k) / del dict[k]
DictDel(d, k) == [x \in (DOMAIN d) \ {k} |-> d[x]]

\* dict[k] = v
DictPut(d, k, v) == [x \in (DOMAIN d) \cup {k} |-> IF x = k THEN v ELSE d[x]]

EmptyDict == [x \in {} |-> None]

(***************************************************************************)
(* URL normalisation                                                       *)
(***************************************************************************)

\* YoutubeModel.extract_video_id: the id is read from the query (watch),
\* from the path (youtu.be) ; a bare id has no netloc and is not parsed.
NoId == ""

extract_video_id(url) ==
    CASE url.form = "watch" -> url.id
      [] url.form = "short" -> url.id
      [] OTHER -> NoId

\* YoutubeModel.clean_url: a bare id is wrapped, anything else is rebuilt
\* from the extracted id; the result is the canonical watch URL, written
\* here as the key <<"yt", id>>.
clean_url(url) ==
    IF url.form = "bare" THEN <<"yt", url.id>>
    ELSE IF extract_video_id(url) # NoId THEN <<"yt", extract_video_id(url)>>
    ELSE <<"raw", url.form, url.id>>

\* SiteModel.get_clean_url: all modelled URL shapes are detected as YouTube.
get_clean_url(url) == clean_url(url)

Keys == {<<"yt", v>> : v \in VideoIds}

K(v) == <<"yt", v>>

(***************************************************************************)
(* State                                                                   *)
(***************************************************************************)

VARIABLES
    queue,           \* self._queue      : list of keys waiting
    active,          \* self._active     : dict key -> thread (or None)
    completed,       \* self._completed  : list of keys
    errors,          \* self._errors     : list of keys
    metadata,        \* self._metadata   : dict key -> job record
    max_concurrent,  \* self._max_concurrent
    detached,        \* bag of threads no longer in _active that are still
                     \* running or have a signal queued
    worker,          \* one DownloadThread followed through its run()
    fetch,           \* one job's title and its two metadata threads
    disk,            \* one active job's files in output_dir
    sync,            \* the mutex and the handlers running in the GUI thread
    pump,            \* one call of _process_queue followed step by step
    cli,             \* one CLIDownloadWorker and its yt-dlp process
    output           \* one download's files and the file name it reports

\* What lies outside the scheduler's own data.
others == <<worker, fetch, disk, sync, pump, cli, output>>

vars == <<queue, active, completed, errors, metadata, max_concurrent,
          detached, others>>

\* The scheduler's state as one value; the handlers below are functions
\* from such a value to the value the handler leaves behind, together with
\* what the call did for its caller:
\*   ret      : the return value ("none" for None)
\*   raised   : the call ended with an exception
\*   prefetch : keys for which the call started a QuickMetadataThread
\*   started  : keys for which the call started a DownloadThread
\*   emitted  : the signals of the DownloadManager the call emitted, each
\*              with its url argument
Store ==
    [queue |-> queue, active |-> active, completed |-> completed,
     errors |-> errors, metadata |-> metadata,
     max_concurrent |-> max_concurrent, detached |-> detached,
     ret |-> "none", raised |-> FALSE, prefetch |-> {}, started |-> {},
     emitted |-> {}]

\* self.<signal>.emit(url, ...)
Emitted(s, signal, url) == [s EXCEPT !.emitted = @ \cup {<<signal, url>>}]

\* self.queue_updated.emit()
QueueUpdated(s) == Emitted(s, "queue_updated", <<>>)

(***************************************************************************)
(* Worker threads                                                          *)
(***************************************************************************)

\* DownloadThread.__init__ followed by connect(...) and start().
\*   running : run() has not returned (and the thread was not terminated)
\*   sig     : signals emitted and queued to the GUI thread, oldest first
NewThread(url) == [url |-> url, running |-> TRUE, sig |-> <<>>]

\* run() emits its final signal and returns.
Finish(thread, kind) ==
    [thread EXCEPT !.running = FALSE, !.sig = Append(@, kind)]

\* A thread object that left _active stays around while it can still be
\* heard: while it runs, or while a signal it emitted is queued.
Detach(s, thread) ==
    IF thread # None /\ (thread.running \/ thread.sig # <<>>)
    THEN [s EXCEPT !.detached = @ (+) SetToBag({thread})]
    ELSE s

(***************************************************************************)
(* _process_queue (Pump)                                                   *)
(***************************************************************************)

\* The job record add_download creates.
InitialMetadata == [status |-> "Queued", progress |-> 0, dismissable |-> FALSE]

\* The locked section of _process_queue: n iterations of the for loop.
\* self._metadata[url] raises KeyError when the entry is missing: the url
\* has been popped already, the jobs admitted by earlier iterations stay in
\* _active with no thread, and the rest of the function is skipped.
\* Mutant of AdmitLoop: the loop takes the newest pending key (pop() instead
\* of pop(0)).
RECURSIVE AdmitLoop_Lifo(_, _, _)
AdmitLoop_Lifo(s, n, urls_to_process) ==
    IF n <= 0 THEN [s |-> s, urls |-> urls_to_process]
    ELSE LET url == s.queue[Len(s.queue)]
             s1  == [s EXCEPT !.queue = SubSeq(@, 1, Len(@) - 1)]
         IN  IF url \notin DOMAIN s1.metadata
             THEN [s |-> [s1 EXCEPT !.raised = TRUE], urls |-> <<>>]
             ELSE AdmitLoop_Lifo(
                    [s1 EXCEPT !.metadata[url].status = "Starting",
                               !.active = DictPut(@, url, None)],
                    n - 1, Append(urls_to_process, url))

RECURSIVE AdmitLoop(_, _, _)
AdmitLoop(s, n, urls_to_process) ==
    IF n <= 0 THEN [s |-> s, urls |-> urls_to_process]
    ELSE LET url == Head(s.queue)
             s1  == [s EXCEPT !.queue = Tail(@)]
         IN  IF url \notin DOMAIN s1.metadata
             THEN [s |-> [s1 EXCEPT !.raised = TRUE], urls |-> <<>>]
             ELSE AdmitLoop(
                    [s1 EXCEPT !.metadata[url].status = "Starting",
                               !.active = DictPut(@, url, None)],
                    n - 1, Append(urls_to_process, url))

\* The unlocked loop over urls_to_process: create, connect and start the
\* thread, then attach it to the _active entry if the entry is still there.
RECURSIVE StartThreads(_, _)
StartThreads(s, urls) ==
    IF urls = <<>> THEN s
    ELSE LET url    == Head(urls)
             thread == NewThread(url)
             s1     == [s EXCEPT !.started = @ \cup {url}]
             s2     == IF url \in DOMAIN s1.active
                       THEN [s1 EXCEPT !.active[url] = thread]
                       ELSE Detach(s1, thread)
         IN  StartThreads(s2, Tail(urls))

\* The loop emitting download_progress(url, 0, "Initializing...") for the
\* keys just admitted.
RECURSIVE InitializingEmitted(_, _)
InitializingEmitted(s, urls) ==
    IF urls = <<>> THEN s
    ELSE InitializingEmitted(Emitted(s, "download_progress", Head(urls)),
                             Tail(urls))

\* Mutant of ProcessQueue: the free slots are computed without counting the
\* downloads that are already active.
ProcessQueue_IgnoresActive(s) ==
    LET urls_to_start == Min(s.max_concurrent, Len(s.queue))
        r             == AdmitLoop(s, urls_to_start, <<>>)
    IN  IF r.s.raised THEN r.s
        ELSE LET s1 == StartThreads(InitializingEmitted(r.s, r.urls), r.urls)
             IN  IF r.urls # <<>> THEN QueueUpdated(s1) ELSE s1

\* Mutant of ProcessQueue: one slot too many.
ProcessQueue_OffByOne(s) ==
    LET available_slots == s.max_concurrent - Cardinality(DOMAIN s.active) + 1
        urls_to_start   == Min(available_slots, Len(s.queue))
        r               == AdmitLoop(s, urls_to_start, <<>>)
    IN  IF r.s.raised THEN r.s
        ELSE LET s1 == StartThreads(InitializingEmitted(r.s, r.urls), r.urls)
             IN  IF r.urls # <<>> THEN QueueUpdated(s1) ELSE s1

\* _process_queue: the statements under the lock, then those after it.
\* The sets of one element name the value each part starts from.
ProcessQueue(store) ==
    LET Locked(s) ==
            LET available_slots == s.max_concurrent - Cardinality(DOMAIN s.active)
                urls_to_start   == Min(available_slots, Len(s.queue))
            IN  AdmitLoop(s, urls_to_start, <<>>)
        Unlocked(r) ==
            IF r.s.raised THEN r.s
            ELSE LET s1 == StartThreads(InitializingEmitted(r.s, r.urls), r.urls)
                 IN  IF r.urls # <<>> THEN QueueUpdated(s1) ELSE s1
    IN  CHOOSE s2 \in {Unlocked(r) : r \in {Locked(s) : s \in {store}}} : TRUE

(***************************************************************************)
(* Public operations                                                       *)
(***************************************************************************)

\* _fetch_quick_metadata_threaded: start the prefetcher of url.
fetch_quick_metadata(s, url) == [s EXCEPT !.prefetch = @ \cup {url}]

\* Mutant of add_download: the duplicate check forgets the completed list.
add_download_IgnoresCompleted(s, url) ==
    LET clean_key == get_clean_url(url)
    IN  IF \/ InList(clean_key, s.queue)
           \/ clean_key \in DOMAIN s.active
           \/ InList(clean_key, s.errors)
        THEN [s EXCEPT !.ret = "false"]
        ELSE LET s1 == [s EXCEPT !.queue = Append(@, clean_key),
                                 !.metadata = DictPut(@, clean_key, InitialMetadata)]
                 s2 == fetch_quick_metadata(QueueUpdated(s1), clean_key)
             IN  [ProcessQueue(s2) EXCEPT !.ret = "true"]

add_download(s, url) ==
    LET clean_key == get_clean_url(url)
    IN  IF \/ InList(clean_key, s.queue)
           \/ clean_key \in DOMAIN s.active
           \/ InList(clean_key, s.completed)
           \/ InList(clean_key, s.errors)
        THEN [s EXCEPT !.ret = "false"]
        ELSE LET s1 == [s EXCEPT !.queue = Append(@, clean_key),
                                 !.metadata = DictPut(@, clean_key, InitialMetadata)]
                 s2 == fetch_quick_metadata(QueueUpdated(s1), clean_key)
             IN  [ProcessQueue(s2) EXCEPT !.ret = "true"]

\* Mutant of set_max_concurrent: the value is stored as given.
set_max_concurrent_NoClamp(s, value) ==
    ProcessQueue([s EXCEPT !.max_concurrent = value])

set_max_concurrent(s, value) ==
    ProcessQueue([s EXCEPT !.max_concurrent = Max(1, Min(5, value))])

\* What a thread does between cancel() and the end of wait()/terminate():
\*   "error"      the progress hook sees the flag and raises; run() emits
\*                error_signal and returns
\*   "complete"   the download was past its last progress callback; run()
\*                emits complete_signal and returns
\*   "terminated" the thread did not stop in 3 s and was terminated
\*   "stopped"    run() had returned before cancel_download was called
CancelOutcomes == {"error", "complete", "terminated"}

CancelOutcomesFor(s, url) ==
    IF url \in DOMAIN s.active /\ s.active[url].running
    THEN CancelOutcomes
    ELSE {"stopped"}

\* thread.cancel(); thread.wait(3000) [; thread.terminate(); thread.wait()]
StopThread(thread, outcome) ==
    IF ~thread.running THEN thread
    ELSE IF outcome = "terminated" THEN [thread EXCEPT !.running = FALSE]
    ELSE Finish(thread, outcome)

\* Mutant of cancel_download: a pending key loses its metadata entry but
\* stays in the queue.
cancel_download_KeepsQueued(s, url, outcome) ==
    IF url \notin DOMAIN s.active /\ InList(url, s.queue)
    THEN ProcessQueue(QueueUpdated([s EXCEPT !.metadata = DictDel(@, url)]))
    ELSE s

cancel_download(s, url, outcome) ==
    LET found == \/ url \in DOMAIN s.active
                 \/ InList(url, s.queue)
                 \/ InList(url, s.errors)
                 \/ InList(url, s.completed)
                 \/ url \in DOMAIN s.metadata
        s1 == IF url \in DOMAIN s.active THEN
                  LET thread_to_cancel == s.active[url]
                      a == [s EXCEPT !.active = DictDel(@, url)]
                      b == IF url \in DOMAIN a.metadata
                           THEN [a EXCEPT !.metadata[url].status = "Cancelled"]
                           ELSE a
                  IN  IF thread_to_cancel # None
                      THEN Detach(b, StopThread(thread_to_cancel, outcome))
                      ELSE b
              ELSE IF InList(url, s.queue) THEN
                  [s EXCEPT !.queue = ListRemove(@, url),
                            !.metadata = DictDel(@, url)]
              ELSE IF InList(url, s.errors) THEN
                  [s EXCEPT !.errors = ListRemove(@, url),
                            !.metadata = DictDel(@, url)]
              ELSE IF InList(url, s.completed) THEN
                  [s EXCEPT !.completed = ListRemove(@, url),
                            !.metadata = DictDel(@, url)]
              ELSE [s EXCEPT !.metadata = DictDel(@, url)]
    IN  IF found THEN ProcessQueue(QueueUpdated(s1)) ELSE s1

dismiss_error(s, url) ==
    QueueUpdated([s EXCEPT !.errors = ListRemove(@, url),
                           !.metadata = DictDel(@, url)])

(***************************************************************************)
(* Worker callbacks                                                        *)
(***************************************************************************)

\* Mutant of on_complete: the handler does not call _process_queue.
on_complete_NoPump(s, url) ==
    LET s1 == IF url \in DOMAIN s.active
              THEN Detach([s EXCEPT !.active = DictDel(@, url)], s.active[url])
              ELSE s
        s2 == IF ~InList(url, s1.completed)
              THEN [s1 EXCEPT !.completed = Append(@, url)]
              ELSE s1
        s3 == IF url \in DOMAIN s2.metadata
              THEN [s2 EXCEPT !.metadata[url].status = "Complete",
                              !.metadata[url].progress = 100]
              ELSE s2
    IN  QueueUpdated(Emitted(s3, "download_complete", url))

on_complete(s, url) ==
    LET need_process_queue == url \in DOMAIN s.active
        s1 == IF need_process_queue
              THEN Detach([s EXCEPT !.active = DictDel(@, url)], s.active[url])
              ELSE s
        s2 == IF ~InList(url, s1.completed)
              THEN [s1 EXCEPT !.completed = Append(@, url)]
              ELSE s1
        s3 == IF url \in DOMAIN s2.metadata
              THEN [s2 EXCEPT !.metadata[url].status = "Complete",
                              !.metadata[url].progress = 100]
              ELSE s2
        s4 == QueueUpdated(Emitted(s3, "download_complete", url))
    IN  IF need_process_queue THEN ProcessQueue(s4) ELSE s4

\* thread.<signal>.disconnect() on the thread popped from _active: what it
\* emits from now on reaches no slot, so a thread that is still running is
\* never heard again.  An emission that is already queued for the GUI
\* thread is beyond the code's control: Qt has posted the call, and the
\* binding may or may not discard it on delivery (kept says which).
Disconnect(thread, kept) ==
    IF thread # None /\ ~thread.running /\ kept THEN thread ELSE None

\* Mutant of on_error: the handler does not call _process_queue.
on_error_NoPump(s, url, kept) ==
    IF url \in DOMAIN s.active THEN
        LET thread == s.active[url]
            s1 == [s EXCEPT !.active = DictDel(@, url)]
            s2 == IF ~InList(url, s1.errors)
                  THEN [s1 EXCEPT !.errors = Append(@, url)]
                  ELSE s1
            s3 == IF url \in DOMAIN s2.metadata
                  THEN [s2 EXCEPT !.metadata[url].status = "Error",
                                  !.metadata[url].dismissable = TRUE]
                  ELSE s2
            s4 == QueueUpdated(Emitted(s3, "download_error", url))
        IN  Detach(s4, Disconnect(thread, kept))
    ELSE QueueUpdated(Emitted(s, "download_error", url))

on_error(s, url, kept) ==
    IF url \in DOMAIN s.active THEN
        LET thread == s.active[url]
            s1 == [s EXCEPT !.active = DictDel(@, url)]
            s2 == IF ~InList(url, s1.errors)
                  THEN [s1 EXCEPT !.errors = Append(@, url)]
                  ELSE s1
            s3 == IF url \in DOMAIN s2.metadata
                  THEN [s2 EXCEPT !.metadata[url].status = "Error",
                                  !.metadata[url].dismissable = TRUE]
                  ELSE s2
            s4 == QueueUpdated(Emitted(s3, "download_error", url))
        IN  ProcessQueue(Detach(s4, Disconnect(thread, kept)))
    ELSE QueueUpdated(Emitted(s, "download_error", url))

(***************************************************************************)
(* Actions                                                                 *)
(***************************************************************************)

(***************************************************************************)
(* DownloadThread.run, one run followed step by step                       *)
(***************************************************************************)

\* max_retries in run(), for the extraction loop and for the download loop.
max_retries == 3

\* The calls of ydl.extract_info followed in one run.
MaxExtracts == 5

\* The largest byte count of a progress event.
MaxBytes == 2

\* What a message of yt-dlp's DownloadError can contain, as far as run()
\* looks at it:
\*   urlopen : "urlopen error"            forbidden : "HTTP Error 403: Forbidden"
\*   country : "This video is not available in your country"
\*   private : "Private video" or "Sign in to confirm your age"
\*   http    : "HTTP Error <digits>"
\* "HTTP Error 403: Forbidden" also matches "HTTP Error <digits>".
ErrorMessages ==
    { {"urlopen"}, {"forbidden", "http"}, {"country"}, {"private"}, {"http"},
      {}, {"urlopen", "forbidden", "http"} }

\* Mutant of Classify: "HTTP Error 403: Forbidden" is taken for a connection
\* problem.
Classify_ForbiddenTransient(error_message) ==
    IF "urlopen" \in error_message \/ "forbidden" \in error_message
    THEN "transient"
    ELSE IF "country" \in error_message THEN "terminal"
    ELSE IF "private" \in error_message THEN "terminal"
    ELSE IF "http" \in error_message THEN "terminal"
    ELSE "unclassified"

\* The if / elif chain over the message in the except DownloadError branch
\* of the download loop.
Classify(error_message) ==
    IF "urlopen" \in error_message THEN "transient"
    ELSE IF "forbidden" \in error_message THEN "terminal"
    ELSE IF "country" \in error_message THEN "terminal"
    ELSE IF "private" \in error_message THEN "terminal"
    ELSE IF "http" \in error_message THEN "terminal"
    ELSE "unclassified"

\* How one call of ydl.download ends:
\*   ok             : it returns
\*   hook_error     : progress_hook is called with status 'error'
\*   hook_cancelled : progress_hook finds self.cancelled set
\*   exception      : an exception that is not a DownloadError
\*   download_error : a DownloadError with the message msg
Ends(kind) == [kind |-> kind, msg |-> {}]
DownloadError(error_message) == [kind |-> "download_error", msg |-> error_message]
DownloadOutcomes ==
    {Ends(kind) : kind \in {"ok", "hook_error", "hook_cancelled", "exception"}}
        \cup {DownloadError(error_message) : error_message \in ErrorMessages}

\* The thread before run() starts.
\*   pc          : setup, extract, download, post, done (run returned) or
\*                 killed (QThread.terminate)
\*   retry_count : the loop counter of the current retry loop
\*   extracts    : the calls of ydl.extract_info made so far
\*   outcomes    : how the calls of ydl.download ended so far, oldest first
\*   post        : whether the steps after the download loop went through
\*   signals     : complete_signal / error_signal emissions, oldest first
\*   cancelled   : self.cancelled
\*   progress    : the percentage last emitted with progress_signal, as the
\*                 fraction num / den; _on_progress stores what it receives
\*                 in _metadata[url]['progress'] as it is
InitialWorker ==
    [pc |-> "setup", retry_count |-> 0, extracts |-> 0, outcomes |-> <<>>,
     post |-> "none", signals |-> <<>>, cancelled |-> FALSE,
     progress |-> [num |-> 0, den |-> 1]]

\* The byte counts of a 'downloading' event.  As d['total_bytes'] and
\* d['total_bytes_estimate'], 0 also stands for None and for a missing key:
\* "or" and the default of d.get treat them alike.
ByteCounts == 0..MaxBytes

\* progress_hook for d['status'] == 'downloading': the percentage it emits.
progress_hook(downloaded_bytes, d_total_bytes, d_total_bytes_estimate) ==
    LET total_bytes == IF d_total_bytes # 0 THEN d_total_bytes
                       ELSE d_total_bytes_estimate
    IN  IF total_bytes > 0
        THEN [num |-> downloaded_bytes * 100, den |-> total_bytes]
        ELSE [num |-> 1, den |-> 1]

\* signal.emit
Emit(w, kind) == [w EXCEPT !.signals = Append(@, kind)]

\* An exception reaches one of the two handlers at the end of run(): each
\* emits error_signal once, and run() returns.
RunFails(w) == [Emit(w, "error") EXCEPT !.pc = "done"]

\* The statements of run() before the extraction loop; os.listdir of the
\* output directory can raise.
run_setup(w, ok) ==
    IF ok THEN [w EXCEPT !.pc = "extract", !.retry_count = 0]
    ELSE RunFails(w)

\* How one call of ydl.extract_info ends: it returns the info dict, it
\* returns None (or an empty dict), or it raises.
ExtractResults == {"info", "none", "raises"}

\* One iteration of the extraction loop, "while retry_count < max_retries
\* and not info": only the except branch counts the attempt.
run_extract(w, result) ==
    LET w1 == [w EXCEPT !.extracts = @ + 1]
    IN  IF result = "info" THEN [w1 EXCEPT !.pc = "download", !.retry_count = 0]
        ELSE IF result = "none" THEN w1
        ELSE LET w2 == [w1 EXCEPT !.retry_count = @ + 1]
             IN  IF w2.retry_count >= max_retries THEN RunFails(w2) ELSE w2

\* Mutant of run_download: the loop allows one failure more.
run_download_OneMoreTry(w, outcome) ==
    LET w1 == [w EXCEPT !.outcomes = Append(@, outcome)]
    IN  IF outcome.kind = "ok" THEN [w1 EXCEPT !.pc = "post"]
        ELSE IF outcome.kind = "hook_error" THEN RunFails(Emit(w1, "error"))
        ELSE IF outcome.kind \in {"hook_cancelled", "exception"}
             THEN RunFails(w1)
        ELSE IF Classify(outcome.msg) = "transient" THEN
                 LET w2 == [w1 EXCEPT !.retry_count = @ + 1]
                 IN  IF w2.retry_count >= max_retries + 1 THEN RunFails(w2)
                     ELSE w2
        ELSE IF Classify(outcome.msg) = "terminal" THEN
                 [Emit(w1, "error") EXCEPT !.pc = "done"]
        ELSE RunFails(w1)

\* Mutant of run_download: the loop gives up one failure early.
run_download_GivesUpEarly(w, outcome) ==
    LET w1 == [w EXCEPT !.outcomes = Append(@, outcome)]
    IN  IF outcome.kind = "ok" THEN [w1 EXCEPT !.pc = "post"]
        ELSE IF outcome.kind = "hook_error" THEN RunFails(Emit(w1, "error"))
        ELSE IF outcome.kind \in {"hook_cancelled", "exception"}
             THEN RunFails(w1)
        ELSE IF Classify(outcome.msg) = "transient" THEN
                 LET w2 == [w1 EXCEPT !.retry_count = @ + 1]
                 IN  IF w2.retry_count >= max_retries - 1 THEN RunFails(w2)
                     ELSE w2
        ELSE IF Classify(outcome.msg) = "terminal" THEN
                 [Emit(w1, "error") EXCEPT !.pc = "done"]
        ELSE RunFails(w1)

\* One iteration of the download loop: a call of ydl.download and the
\* handling of how it ended.
run_download(w, outcome) ==
    LET w1 == [w EXCEPT !.outcomes = Append(@, outcome)]
    IN  IF outcome.kind = "ok" THEN [w1 EXCEPT !.pc = "post"]
        ELSE IF outcome.kind = "hook_error" THEN RunFails(Emit(w1, "error"))
        ELSE IF outcome.kind \in {"hook_cancelled", "exception"}
             THEN RunFails(w1)
        ELSE IF Classify(outcome.msg) = "transient" THEN
                 LET w2 == [w1 EXCEPT !.retry_count = @ + 1]
                 IN  IF w2.retry_count >= max_retries THEN RunFails(w2)
                     ELSE w2
        ELSE IF Classify(outcome.msg) = "terminal" THEN
                 [Emit(w1, "error") EXCEPT !.pc = "done"]
        ELSE RunFails(w1)

\* The statements after the download loop: the directory is listed again,
\* the file is identified, and complete_signal is emitted.
run_post(w, ok) ==
    IF ok THEN [Emit([w EXCEPT !.post = "ok"], "complete") EXCEPT !.pc = "done"]
    ELSE RunFails([w EXCEPT !.post = "failed"])

Running(w) == w.pc \notin {"done", "killed"}

WorkerSetup(ok) ==
    /\ worker.pc = "setup"
    /\ worker' = run_setup(worker, ok)
    /\ UNCHANGED <<queue, active, completed, errors, metadata,
                   max_concurrent, detached, fetch, disk, sync, pump, cli,
                   output>>

WorkerExtract(result) ==
    /\ worker.pc = "extract"
    /\ worker.extracts < MaxExtracts
    /\ worker' = run_extract(worker, result)
    /\ UNCHANGED <<queue, active, completed, errors, metadata,
                   max_concurrent, detached, fetch, disk, sync, pump, cli,
                   output>>

WorkerDownload(outcome) ==
    /\ worker.pc = "download"
    /\ outcome.kind = "hook_cancelled" => worker.cancelled
    /\ worker' = run_download(worker, outcome)
    /\ UNCHANGED <<queue, active, completed, errors, metadata,
                   max_concurrent, detached, fetch, disk, sync, pump, cli,
                   output>>

WorkerPost(ok) ==
    /\ worker.pc = "post"
    /\ worker' = run_post(worker, ok)
    /\ UNCHANGED <<queue, active, completed, errors, metadata,
                   max_concurrent, detached, fetch, disk, sync, pump, cli,
                   output>>

\* yt-dlp calls progress_hook with a 'downloading' event.  It has received
\* at most total_bytes when it knows the size; total_bytes_estimate is its
\* guess from what it has seen so far.
WorkerProgress(downloaded_bytes, total_bytes, total_bytes_estimate) ==
    /\ worker.pc = "download"
    /\ ~worker.cancelled
    /\ total_bytes # 0 => downloaded_bytes <= total_bytes
    /\ worker' = [worker EXCEPT !.progress =
                      progress_hook(downloaded_bytes, total_bytes,
                                    total_bytes_estimate)]
    /\ worker'.progress # worker.progress
    /\ UNCHANGED <<queue, active, completed, errors, metadata,
                   max_concurrent, detached, fetch, disk, sync, pump, cli,
                   output>>

\* DownloadThread.cancel, called by cancel_download.
WorkerCancel ==
    /\ Running(worker)
    /\ ~worker.cancelled
    /\ worker' = [worker EXCEPT !.cancelled = TRUE]
    /\ UNCHANGED <<queue, active, completed, errors, metadata,
                   max_concurrent, detached, fetch, disk, sync, pump, cli,
                   output>>

\* cancel_download gives up waiting after three seconds and terminates the
\* thread.
WorkerTerminate ==
    /\ Running(worker)
    /\ worker.cancelled
    /\ worker' = [worker EXCEPT !.pc = "killed"]
    /\ UNCHANGED <<queue, active, completed, errors, metadata,
                   max_concurrent, detached, fetch, disk, sync, pump, cli,
                   output>>

NextWorker ==
    \/ \E ok \in BOOLEAN : WorkerSetup(ok)
    \/ \E result \in ExtractResults : WorkerExtract(result)
    \/ \E outcome \in DownloadOutcomes : WorkerDownload(outcome)
    \/ \E ok \in BOOLEAN : WorkerPost(ok)
    \/ \E downloaded_bytes, total_bytes, total_bytes_estimate \in ByteCounts :
           WorkerProgress(downloaded_bytes, total_bytes, total_bytes_estimate)
    \/ WorkerCancel
    \/ WorkerTerminate

(***************************************************************************)
(* The title of one job: add_download, QuickMetadataThread, MetadataThread *)
(***************************************************************************)

\* A title is the text, cut where the code's prefix tests cut it, and
\* whether the site supplied it (real) or the program made it up.
Title(text, real) == [text |-> text, real |-> real]

\* str.startswith
StartsWith(text, prefix) ==
    Len(text) >= Len(prefix) /\ SubSeq(text, 1, Len(prefix)) = prefix

\* "Loading..." : the title add_download stores
LoadingTitle == Title(<<"Loading", "...">>, FALSE)
\* "Loading YouTube video: <id>" : YoutubeModel.get_video_metadata without
\* a title from the API
YoutubeFallbackTitle == Title(<<"Loading", " YouTube video: id">>, FALSE)
\* "Loading: youtube video" : QuickMetadataThread after its retries
GenericTitle == Title(<<"Loading", ":", " youtube video">>, FALSE)
\* "Unknown Title" : the default when yt-dlp's info has no title
UnknownTitle == Title(<<"Unknown Title">>, FALSE)
\* titles of videos, one of them beginning with the word Loading
RealTitles ==
    {Title(<<"Some video">>, TRUE), Title(<<"Loading", " docks">>, TRUE)}

\* What QuickMetadataThread.run can emit for a key with a video id.
QuickResults == RealTitles \cup {YoutubeFallbackTitle, GenericTitle}

\* What MetadataThread.run can emit with its finished signal; has_id says
\* whether the key has a video id.
FullResults(has_id) ==
    RealTitles \cup {UnknownTitle}
        \cup (IF has_id THEN {YoutubeFallbackTitle} ELSE {})

\* The job before add_download.
\*   has_id    : SiteModel.extract_video_id finds a video id in the key
\*   entry     : the key is in _metadata
\*   title     : _metadata[url]['title']
\*   quick     : QuickMetadataThread: none, running, returned
\*   quick_sig : its metadata_ready emissions still queued
\*   full      : MetadataThread: none, running, returned
\*   full_sig  : its finished / error emissions still queued
\*   shown     : titles sent with download_started by
\*               _on_quick_metadata_ready
\*   raised    : an exception has left _on_quick_metadata_ready
InitialFetch ==
    [has_id |-> TRUE, entry |-> FALSE, title |-> LoadingTitle,
     quick |-> "none", quick_sig |-> <<>>, full |-> "none",
     full_sig |-> <<>>, shown |-> <<>>, raised |-> FALSE]

\* add_download: the entry is written with title "Loading..." and the
\* QuickMetadataThread is started.
fetch_add_download(f, has_id) ==
    [f EXCEPT !.has_id = has_id, !.entry = TRUE, !.title = LoadingTitle,
              !.quick = "running"]

\* QuickMetadataThread.run: without a video id it returns at once; else it
\* emits metadata_ready with the title it ends up with.
quick_run(f, title) ==
    IF ~f.has_id THEN [f EXCEPT !.quick = "returned"]
    ELSE [f EXCEPT !.quick = "returned", !.quick_sig = Append(@, title)]

\* _on_quick_metadata_ready.  Without an entry for the key, meta_title is
\* not bound and the slot ends with an exception before download_started.
on_quick_metadata_ready(f, title) ==
    IF f.entry THEN
        LET current_title == f.title
            f1 == IF \/ ~StartsWith(title.text, <<"Loading", ":">>)
                     \/ StartsWith(current_title.text, <<"Loading">>)
                  THEN [f EXCEPT !.title = title]
                  ELSE f
        IN  [f1 EXCEPT !.shown = Append(@, f1.title)]
    ELSE [f EXCEPT !.raised = TRUE]

\* _handle_metadata_finished
handle_metadata_finished(f, title) ==
    IF f.entry THEN [f EXCEPT !.title = title] ELSE f

FetchSubmit(has_id) ==
    /\ fetch.quick = "none"
    /\ fetch' = fetch_add_download(fetch, has_id)
    /\ UNCHANGED <<queue, active, completed, errors, metadata,
                   max_concurrent, detached, worker, disk, sync, pump, cli,
                   output>>

QuickRun(title) ==
    /\ fetch.quick = "running"
    /\ fetch' = quick_run(fetch, title)
    /\ UNCHANGED <<queue, active, completed, errors, metadata,
                   max_concurrent, detached, worker, disk, sync, pump, cli,
                   output>>

QuickReady ==
    /\ fetch.quick_sig # <<>>
    /\ fetch' = on_quick_metadata_ready(
                    [fetch EXCEPT !.quick_sig = Tail(@)], Head(fetch.quick_sig))
    /\ UNCHANGED <<queue, active, completed, errors, metadata,
                   max_concurrent, detached, worker, disk, sync, pump, cli,
                   output>>

\* _process_queue admits the job and calls _fetch_metadata.
FetchAdmit ==
    /\ fetch.entry
    /\ fetch.full = "none"
    /\ fetch' = [fetch EXCEPT !.full = "running"]
    /\ UNCHANGED <<queue, active, completed, errors, metadata,
                   max_concurrent, detached, worker, disk, sync, pump, cli,
                   output>>

\* MetadataThread.run emits finished with a title.
FullRun(title) ==
    /\ fetch.full = "running"
    /\ title \in FullResults(fetch.has_id)
    /\ fetch' = [fetch EXCEPT !.full = "returned",
                              !.full_sig = Append(@, <<"finished", title>>)]
    /\ UNCHANGED <<queue, active, completed, errors, metadata,
                   max_concurrent, detached, worker, disk, sync, pump, cli,
                   output>>

\* MetadataThread.run ends in its exception handler and emits error.
FullRunFails ==
    /\ fetch.full = "running"
    /\ fetch' = [fetch EXCEPT !.full = "returned",
                              !.full_sig = Append(@, <<"error", UnknownTitle>>)]
    /\ UNCHANGED <<queue, active, completed, errors, metadata,
                   max_concurrent, detached, worker, disk, sync, pump, cli,
                   output>>

\* _handle_metadata_finished or _handle_metadata_error (which stores
\* nothing).
FullDeliver ==
    /\ fetch.full_sig # <<>>
    /\ LET sig == Head(fetch.full_sig)
           f   == [fetch EXCEPT !.full_sig = Tail(@)]
       IN  fetch' = IF sig[1] = "finished"
                    THEN handle_metadata_finished(f, sig[2])
                    ELSE f
    /\ UNCHANGED <<queue, active, completed, errors, metadata,
                   max_concurrent, detached, worker, disk, sync, pump, cli,
                   output>>

\* cancel_download of the pending, failed or completed job, or
\* dismiss_error: the entry is deleted.
FetchCancel ==
    /\ fetch.entry
    /\ fetch' = [fetch EXCEPT !.entry = FALSE]
    /\ UNCHANGED <<queue, active, completed, errors, metadata,
                   max_concurrent, detached, worker, disk, sync, pump, cli,
                   output>>

NextFetch ==
    \/ \E has_id \in BOOLEAN : FetchSubmit(has_id)
    \/ \E title \in QuickResults : QuickRun(title)
    \/ QuickReady
    \/ FetchAdmit
    \/ \E title \in FullResults(TRUE) : FullRun(title)
    \/ FullRunFails
    \/ FullDeliver
    \/ FetchCancel

(***************************************************************************)
(* The files of one active job: cancel_download and _cleanup_temp_files    *)
(***************************************************************************)

\* Titles of videos as yt-dlp reports them; its outtmpl '%(title)s.%(ext)s'
\* names the files after them.
VideoTitles == {<<"Some video">>, <<"Hello", ",", " world">>}

\* What follows the title in the name of a file the download leaves
\* behind when it stops half way, as dot-separated parts:
\*   <title>.f137.mp4.part   a stream being written
\*   <title>.f137.mp4.ytdl   its resume information
\*   <title>.f140.m4a        a finished stream waiting to be merged
\*   <title>.mp4.part        a single-format download being written
\* (f137 and f140 are format ids of streams downloaded separately).
Artifacts ==
    {<<"f137", "mp4", "part">>, <<"f137", "mp4", "ytdl">>,
     <<"f140", "m4a">>, <<"mp4", "part">>}

\* re.sub(r'[^\w\s-]', '', video_title): of the pieces titles are made of
\* here, "..." and "," are removed.
RECURSIVE safe_title(_)
safe_title(video_title) ==
    IF video_title = <<>> THEN <<>>
    ELSE IF Head(video_title) \in {"...", ","}
         THEN safe_title(Tail(video_title))
         ELSE <<Head(video_title)>> \o safe_title(Tail(video_title))

\* glob.glob of the five patterns of _cleanup_temp_files:
\*   {prefix}*.*.part, {prefix}*.*.ytdl : the name starts with the prefix
\*       and ends in .<anything>.part or .<anything>.ytdl
\*   {prefix}*.f*.m4a, ...mp4, ...webm  : the name starts with the prefix,
\*       ends in the container's extension and has a part beginning with f
\*       before it
MatchesPatterns(prefix, file) ==
    /\ StartsWith(file.name, prefix)
    /\ Len(file.ext) >= 2
    /\ LET last == file.ext[Len(file.ext)]
       IN  \/ last \in {"part", "ytdl"}
           \/ /\ last \in {"m4a", "mp4", "webm"}
              /\ \E i \in 1..(Len(file.ext) - 1) :
                     file.ext[i] \in {"f137", "f140"}

\* _cleanup_temp_files: the files of output_dir that are left.
cleanup_temp_files(files, video_title) ==
    {file \in files : ~MatchesPatterns(safe_title(video_title), file)}

\* The job when it becomes active.
\*   phase      : idle, active (thread running), cancelled (cancel_download
\*                of the active job has returned)
\*   video      : the title yt-dlp finds for the video
\*   title      : _metadata[url]['title']
\*   files      : the files in output_dir that downloads have created; the
\*                job's own are those named after its video
\*   terminated : cancel_download called thread.terminate()
InitialDisk ==
    [phase |-> "idle", video |-> <<>>, title |-> LoadingTitle.text,
     files |-> {}, terminated |-> FALSE]

\* _process_queue starts the DownloadThread of a job for a video.
DiskStart(video) ==
    /\ disk.phase = "idle"
    /\ disk' = [disk EXCEPT !.phase = "active", !.video = video]
    /\ UNCHANGED <<queue, active, completed, errors, metadata,
                   max_concurrent, detached, worker, fetch, sync, pump, cli,
                   output>>

\* _on_quick_metadata_ready or _handle_metadata_finished stores the title
\* of the video, or the title yt-dlp's info lacks.
DiskTitle(title) ==
    /\ disk.phase = "active"
    /\ title \in {disk.video, UnknownTitle.text}
    /\ disk.title # title
    /\ disk' = [disk EXCEPT !.title = title]
    /\ UNCHANGED <<queue, active, completed, errors, metadata,
                   max_concurrent, detached, worker, fetch, sync, pump, cli,
                   output>>

\* yt-dlp creates a file of the download.
DiskWrite(ext) ==
    /\ disk.phase = "active"
    /\ [name |-> disk.video, ext |-> ext] \notin disk.files
    /\ disk' = [disk EXCEPT
                   !.files = @ \cup {[name |-> disk.video, ext |-> ext]}]
    /\ UNCHANGED <<queue, active, completed, errors, metadata,
                   max_concurrent, detached, worker, fetch, sync, pump, cli,
                   output>>

\* The DownloadThread of another active job, downloading a different video
\* (one of VideoTitles, or the sequel of one) to the same output_dir, creates
\* a file.
DiskOtherWrite(video, ext) ==
    /\ disk.phase = "active"
    /\ video # disk.video
    /\ [name |-> video, ext |-> ext] \notin disk.files
    /\ disk' = [disk EXCEPT !.files = @ \cup {[name |-> video, ext |-> ext]}]
    /\ UNCHANGED <<queue, active, completed, errors, metadata,
                   max_concurrent, detached, worker, fetch, sync, pump, cli,
                   output>>

\* cancel_download of the active job: its thread is given cancel() and
\* wait(3000); it stops in time (stopped) or is terminated.  Then, whenever
\* a title is stored, the files are cleaned up.
DiskCancel(stopped) ==
    /\ disk.phase = "active"
    /\ LET video_title == disk.title
           d1 == [disk EXCEPT !.phase = "cancelled",
                              !.terminated = ~stopped]
       IN  disk' = IF video_title # <<>>
                   THEN [d1 EXCEPT
                            !.files = cleanup_temp_files(@, video_title)]
                   ELSE d1
    /\ UNCHANGED <<queue, active, completed, errors, metadata,
                   max_concurrent, detached, worker, fetch, sync, pump, cli,
                   output>>

NextDisk ==
    \/ \E video \in VideoTitles : DiskStart(video)
    \/ \E title \in VideoTitles \cup {UnknownTitle.text} : DiskTitle(title)
    \/ \E ext \in Artifacts : DiskWrite(ext)
    \/ \E video \in VideoTitles \cup {<<"Some video", " part 2">>},
          ext \in {<<"f137", "mp4", "part">>, <<"f140", "m4a">>} :
              DiskOtherWrite(video, ext)
    \/ \E stopped \in BOOLEAN : DiskCancel(stopped)

(***************************************************************************)
(* The mutex: every handler of DownloadManager as the sequence of its      *)
(* lock, unlock, write and emit statements                                 *)
(***************************************************************************)

\* Deepest nesting of handlers: a handler, a slot of a consumer that is
\* called from one of its emit statements, and what that slot calls.
MaxDepth == 2

\* A statement of a handler:
\*   lock, unlock  self._mutex.lock() / self._mutex.unlock()
\*   write         an assignment to, or a mutating call on, self._<arg>
\*   emit          self.<arg>.emit(...)
\*   call          self.<arg>(...)
Step(op, arg) == [op |-> op, arg |-> arg]

\* The signals of DownloadManager that carry the state of the queue.
Events ==
    {"queue_updated", "download_started", "download_progress",
     "download_complete", "download_error"}

\* _process_queue; admits: urls_to_start > 0 (one iteration of each loop).
process_queue_steps(admits) ==
    IF admits
    THEN <<Step("lock", ""), Step("write", "queue"), Step("write", "metadata"), Step("write", "active"), Step("unlock", ""),
           Step("emit", "download_progress"),
           Step("lock", ""), Step("write", "active"), Step("unlock", ""),
           Step("emit", "queue_updated")>>
    ELSE <<Step("lock", ""), Step("unlock", "")>>

\* add_download; is_new: the key is in none of the four collections.
add_download_steps(is_new) ==
    IF is_new
    THEN <<Step("lock", ""), Step("write", "queue"), Step("write", "metadata"), Step("unlock", ""),
           Step("emit", "queue_updated"), Step("call", "_process_queue")>>
    ELSE <<Step("lock", ""), Step("unlock", "")>>

\* cancel_download; place: the branch of the if / elif chain taken.
cancel_download_steps(place) ==
    CASE place = "active" ->
           <<Step("lock", ""), Step("write", "active"), Step("write", "metadata"), Step("unlock", ""),
             Step("emit", "queue_updated"), Step("call", "_process_queue")>>
      [] place \in {"queue", "errors", "completed"} ->
           <<Step("lock", ""), Step("write", place), Step("write", "metadata"), Step("unlock", ""),
             Step("emit", "queue_updated"), Step("call", "_process_queue")>>
      [] place = "metadata" ->
           <<Step("lock", ""), Step("write", "metadata"), Step("unlock", ""),
             Step("emit", "queue_updated"), Step("call", "_process_queue")>>
      [] OTHER -> <<Step("lock", ""), Step("unlock", "")>>

\* dismiss_error
dismiss_error_steps ==
    <<Step("lock", ""), Step("write", "errors"), Step("write", "metadata"), Step("unlock", ""),
      Step("emit", "queue_updated")>>

\* set_max_concurrent
set_max_concurrent_steps ==
    <<Step("write", "max_concurrent"), Step("call", "_process_queue")>>

\* get_all_urls
get_all_urls_steps == <<Step("lock", ""), Step("unlock", "")>>

\* _on_progress and _on_processing; in_metadata: url in self._metadata.
on_progress_steps(in_metadata) ==
    IF in_metadata
    THEN <<Step("write", "metadata"), Step("emit", "download_progress")>>
    ELSE <<>>

\* _on_complete; in_active: url in self._active.
on_complete_steps(in_active) ==
    IF in_active
    THEN <<Step("lock", ""), Step("write", "active"), Step("write", "completed"), Step("write", "metadata"),
           Step("unlock", ""), Step("emit", "download_complete"), Step("emit", "queue_updated"),
           Step("call", "_process_queue")>>
    ELSE <<Step("lock", ""), Step("write", "completed"), Step("write", "metadata"), Step("unlock", ""),
           Step("emit", "download_complete"), Step("emit", "queue_updated")>>

\* _on_error; in_active: url in self._active.
on_error_steps(in_active) ==
    IF in_active
    THEN <<Step("lock", ""), Step("write", "active"), Step("write", "errors"), Step("write", "metadata"),
           Step("unlock", ""), Step("emit", "download_error"), Step("emit", "queue_updated"),
           Step("call", "_process_queue")>>
    ELSE <<Step("lock", ""), Step("unlock", ""), Step("emit", "download_error"), Step("emit", "queue_updated")>>

\* _on_quick_metadata_ready; in_metadata: url in self._metadata.
on_quick_metadata_ready_steps(in_metadata) ==
    IF in_metadata
    THEN <<Step("lock", ""), Step("write", "metadata"), Step("unlock", ""), Step("emit", "download_started")>>
    ELSE <<Step("lock", ""), Step("unlock", "")>>

\* _handle_metadata_finished; in_metadata: url in self._metadata.
handle_metadata_finished_steps(in_metadata) ==
    IF in_metadata
    THEN <<Step("lock", ""), Step("write", "metadata"), Step("emit", "download_started"), Step("unlock", "")>>
    ELSE <<Step("lock", ""), Step("unlock", "")>>

\* _handle_metadata_error; in_metadata: url in self._metadata.
handle_metadata_error_steps(in_metadata) ==
    IF in_metadata
    THEN <<Step("lock", ""), Step("emit", "download_started"), Step("unlock", "")>>
    ELSE <<Step("lock", ""), Step("unlock", "")>>

\* The methods other objects call.
PublicCalls ==
    {add_download_steps(is_new) : is_new \in BOOLEAN}
        \cup {cancel_download_steps(place) :
                 place \in {"active", "queue", "errors", "completed",
                            "metadata", "nowhere"}}
        \cup {dismiss_error_steps, set_max_concurrent_steps,
              get_all_urls_steps}

\* The slots of the signals of the worker and metadata threads.
SlotCalls ==
    {on_progress_steps(b) : b \in BOOLEAN}
        \cup {on_complete_steps(b) : b \in BOOLEAN}
        \cup {on_error_steps(b) : b \in BOOLEAN}
        \cup {on_quick_metadata_ready_steps(b) : b \in BOOLEAN}
        \cup {handle_metadata_finished_steps(b) : b \in BOOLEAN}
        \cup {handle_metadata_error_steps(b) : b \in BOOLEAN}

\* The GUI thread between two events.
\*   held    : the QMutex is locked
\*   blocked : the thread waits in lock() for the mutex it holds itself
\*   stack   : the statements still to run, innermost call first
InitialSync == [held |-> FALSE, blocked |-> FALSE, stack |-> <<>>]

\* The stack without the frames that have nothing left to run.
RECURSIVE Return(_)
Return(stack) ==
    IF stack # <<>> /\ Head(stack) = <<>> THEN Return(Tail(stack)) ELSE stack

\* The statement the GUI thread runs next.
Busy == sync.stack # <<>> /\ ~sync.blocked

NextStep == Head(Head(sync.stack))

\* The stack after the current statement.
Advance == Return(<<Tail(Head(sync.stack))>> \o Tail(sync.stack))

\* The event loop calls a method or a slot.
SyncBegin(steps) ==
    /\ sync.stack = <<>>
    /\ ~sync.blocked
    /\ steps # <<>>
    /\ sync' = [sync EXCEPT !.stack = <<steps>>]
    /\ UNCHANGED <<queue, active, completed, errors, metadata,
                   max_concurrent, detached, worker, fetch, disk, pump, cli,
                   output>>

\* QMutex.lock(): the mutex is not recursive, a second lock() by the
\* thread that holds it never returns.
SyncLock ==
    /\ Busy
    /\ NextStep.op = "lock"
    /\ sync' = IF sync.held
               THEN [sync EXCEPT !.blocked = TRUE]
               ELSE [sync EXCEPT !.held = TRUE, !.stack = Advance]
    /\ UNCHANGED <<queue, active, completed, errors, metadata,
                   max_concurrent, detached, worker, fetch, disk, pump, cli,
                   output>>

\* QMutex.unlock(); a write; an emit() that has called the connected
\* slots and returns.
SyncStep ==
    /\ Busy
    /\ NextStep.op \in {"unlock", "write", "emit"}
    /\ sync' = [sync EXCEPT
                   !.held = IF NextStep.op = "unlock" THEN FALSE ELSE @,
                   !.stack = Advance]
    /\ UNCHANGED <<queue, active, completed, errors, metadata,
                   max_concurrent, detached, worker, fetch, disk, pump, cli,
                   output>>

\* A slot connected to the signal being emitted runs inside emit() and
\* calls a method of the DownloadManager.
SyncReenter(steps) ==
    /\ Busy
    /\ NextStep.op = "emit"
    /\ NextStep.arg \in Events
    /\ Len(sync.stack) < MaxDepth
    /\ sync' = [sync EXCEPT !.stack = <<steps>> \o @]
    /\ UNCHANGED <<queue, active, completed, errors, metadata,
                   max_concurrent, detached, worker, fetch, disk, pump, cli,
                   output>>

\* self._process_queue() as the last statement of a handler.
SyncCall(admits) ==
    /\ Busy
    /\ NextStep = Step("call", "_process_queue")
    /\ sync' = [sync EXCEPT
                   !.stack = <<process_queue_steps(admits)>> \o Advance]
    /\ UNCHANGED <<queue, active, completed, errors, metadata,
                   max_concurrent, detached, worker, fetch, disk, pump, cli,
                   output>>

NextSync ==
    \/ \E steps \in PublicCalls \cup SlotCalls : SyncBegin(steps)
    \/ SyncLock
    \/ SyncStep
    \/ \E steps \in PublicCalls : SyncReenter(steps)
    \/ \E admits \in BOOLEAN : SyncCall(admits)

(***************************************************************************)
(* _process_queue statement by statement: the mutex is released between    *)
(* the loop that fills _active with None and the loop that starts and      *)
(* attaches the threads, and download_progress is emitted in between; a    *)
(* slot connected directly runs inside emit() and can call back            *)
(***************************************************************************)

\* The DownloadManager after __init__.
EmptyStore ==
    [queue |-> <<>>, active |-> EmptyDict, completed |-> <<>>,
     errors |-> <<>>, metadata |-> EmptyDict, max_concurrent |-> 2,
     detached |-> EmptyBag,
     ret |-> "none", raised |-> FALSE, prefetch |-> {}, started |-> {},
     emitted |-> {}]

\* What a call returned and started is of no interest to the next call.
Returned(s) ==
    [s EXCEPT !.ret = "none", !.raised = FALSE, !.prefetch = {},
              !.started = {}, !.emitted = {}]

\* The scheduler with one download running and two waiting: the limit was
\* set to 1 and three URLs were added.
PumpStore ==
    LET s1 == set_max_concurrent(EmptyStore, 0)
        s2 == add_download(Returned(s1), [form |-> "watch", id |-> "A"])
        s3 == add_download(Returned(s2), [form |-> "watch", id |-> "B"])
        s4 == add_download(Returned(s3), [form |-> "watch", id |-> "C"])
    IN  Returned(s4)

\*   pc     : idle, locked (before the first lock()), start (before
\*            thread.start(): for the first url the download_progress loop
\*            comes before it, for the others the log_message that ends
\*            the iteration before), attach (before the second lock()), done
\*   s      : the scheduler's data
\*   urls   : urls_to_process
\*   i      : the position of the second loop in urls
\*   thread : the thread started and not yet attached
InitialPump ==
    [pc |-> "idle", s |-> PumpStore, urls |-> <<>>, i |-> 1,
     thread |-> None]

\* set_max_concurrent(value) up to its call of _process_queue.
PumpBegin(value) ==
    /\ pump.pc = "idle"
    /\ pump' = [pump EXCEPT
                   !.pc = "locked",
                   !.s.max_concurrent = Max(1, Min(5, value))]
    /\ UNCHANGED <<queue, active, completed, errors, metadata,
                   max_concurrent, detached, worker, fetch, disk, sync, cli,
                   output>>

\* The first locked section.
PumpLocked ==
    /\ pump.pc = "locked"
    /\ LET s == pump.s
           available_slots == s.max_concurrent - Cardinality(DOMAIN s.active)
           urls_to_start   == Min(available_slots, Len(s.queue))
           r               == AdmitLoop(s, urls_to_start, <<>>)
       IN  pump' = [pump EXCEPT
                       !.pc = IF r.urls = <<>> THEN "done" ELSE "start",
                       !.s = r.s, !.urls = r.urls]
    /\ UNCHANGED <<queue, active, completed, errors, metadata,
                   max_concurrent, detached, worker, fetch, disk, sync, cli,
                   output>>

\* thread = DownloadThread(...); connect; thread.start()
PumpStart ==
    /\ pump.pc = "start"
    /\ pump' = [pump EXCEPT !.pc = "attach",
                            !.thread = NewThread(pump.urls[pump.i]),
                            !.s.started = @ \cup {pump.urls[pump.i]}]
    /\ UNCHANGED <<queue, active, completed, errors, metadata,
                   max_concurrent, detached, worker, fetch, disk, sync, cli,
                   output>>

\* The second locked section: the thread is stored if the url is still in
\* _active; if not, nothing refers to the thread any more.
PumpAttach ==
    /\ pump.pc = "attach"
    /\ LET url == pump.urls[pump.i]
           s1  == IF url \in DOMAIN pump.s.active
                  THEN [pump.s EXCEPT !.active[url] = pump.thread]
                  ELSE Detach(pump.s, pump.thread)
       IN  pump' = [pump EXCEPT
                       !.s = s1, !.thread = None, !.i = @ + 1,
                       !.pc = IF pump.i < Len(pump.urls)
                              THEN "start" ELSE "done"]
    /\ UNCHANGED <<queue, active, completed, errors, metadata,
                   max_concurrent, detached, worker, fetch, disk, sync, cli,
                   output>>

\* cancel_download(url), called by a slot from inside an emit() of
\* _process_queue (download_progress before the second loop, log_message
\* at the end of each of its iterations), or after _process_queue.
PumpCancel(url, outcome) ==
    /\ pump.pc \in {"start", "done"}
    /\ \/ url \in DOMAIN pump.s.active
       \/ InList(url, pump.s.queue)
    /\ outcome \in CancelOutcomesFor(pump.s, url)
    /\ pump' = [pump EXCEPT !.s = cancel_download(pump.s, url, outcome)]
    /\ UNCHANGED <<queue, active, completed, errors, metadata,
                   max_concurrent, detached, worker, fetch, disk, sync, cli,
                   output>>

NextPump ==
    \/ \E value \in LimitInputs : PumpBegin(value)
    \/ PumpLocked
    \/ PumpStart
    \/ PumpAttach
    \/ \E url \in Keys, outcome \in CancelOutcomes \cup {"stopped"} :
           PumpCancel(url, outcome)

(***************************************************************************)
(* CLIDownloadWorker.run and cancel                                        *)
(***************************************************************************)

\* Lines of output the yt-dlp process can have written that run() has not
\* read yet.
MaxLines == 2

\* The lines of output run() tells apart:
\*   destination : [download] Destination: <file>
\*   progress    : [download]  12.3% of ... at ... ETA ...
\*   other       : anything else
LineKinds == {"destination", "progress", "other"}

\*   pc        : setup (before Popen), reading (the for loop over the
\*               lines of stdout), waiting (after the loop), done
\*   process   : none, running, exited, terminated (by terminate / kill)
\*   code      : the exit code
\*   lines     : lines written and not yet read, oldest first
\*   cancelled : self.cancelled
\*   downloading_started : the local variable of run()
\*   progress  : progress_signal has been emitted
\*   signals   : error_signal / complete_signal emissions
InitialCli ==
    [pc |-> "setup", process |-> "none", code |-> 0, lines |-> <<>>,
     cancelled |-> FALSE, downloading_started |-> FALSE,
     progress |-> FALSE, signals |-> <<>>]

\* process.terminate() / process.kill(): the exit code is the negated
\* signal number, written here as 1.
Terminated(c) ==
    IF c.process = "running"
    THEN [c EXCEPT !.process = "terminated", !.code = 1]
    ELSE c

\* subprocess.Popen(cmd, ...)
CliPopen ==
    /\ cli.pc = "setup"
    /\ cli' = [cli EXCEPT !.pc = "reading", !.process = "running"]
    /\ UNCHANGED <<queue, active, completed, errors, metadata,
                   max_concurrent, detached, worker, fetch, disk, sync, pump,
                   output>>

\* The yt-dlp process writes a line to its stdout.
CliWrite(line) ==
    /\ cli.process = "running"
    /\ Len(cli.lines) < MaxLines
    /\ cli' = [cli EXCEPT !.lines = Append(@, line)]
    /\ UNCHANGED <<queue, active, completed, errors, metadata,
                   max_concurrent, detached, worker, fetch, disk, sync, pump,
                   output>>

\* The yt-dlp process ends by itself.
CliExit(code) ==
    /\ cli.process = "running"
    /\ cli' = [cli EXCEPT !.process = "exited", !.code = code]
    /\ UNCHANGED <<queue, active, completed, errors, metadata,
                   max_concurrent, detached, worker, fetch, disk, sync, pump,
                   output>>

\* readline() returns a line: one iteration of the for loop.  With the
\* flag set the process is terminated and the exception raised ends run()
\* in its except clause, which emits error_signal.
CliReadLine ==
    /\ cli.pc = "reading"
    /\ cli.lines # <<>>
    /\ LET line == Head(cli.lines)
           c1   == [cli EXCEPT !.lines = Tail(@)]
       IN  cli' = IF c1.cancelled
                  THEN [Terminated(c1) EXCEPT
                           !.pc = "done", !.signals = Append(@, "error")]
                  ELSE IF line = "destination"
                       THEN [c1 EXCEPT !.downloading_started = TRUE]
                  ELSE IF line = "progress" /\ c1.downloading_started
                       THEN [c1 EXCEPT !.progress = TRUE]
                  ELSE c1
    /\ UNCHANGED <<queue, active, completed, errors, metadata,
                   max_concurrent, detached, worker, fetch, disk, sync, pump,
                   output>>

\* readline() returns '': the process has ended and nothing is left in the
\* pipe.
CliReadEnd ==
    /\ cli.pc = "reading"
    /\ cli.lines = <<>>
    /\ cli.process \in {"exited", "terminated"}
    /\ cli' = [cli EXCEPT !.pc = "waiting"]
    /\ UNCHANGED <<queue, active, completed, errors, metadata,
                   max_concurrent, detached, worker, fetch, disk, sync, pump,
                   output>>

\* After the loop: return_code = self.process.wait() and what follows.
CliWait ==
    /\ cli.pc = "waiting"
    /\ LET return_code == cli.code
       IN  cli' = IF return_code # 0 /\ ~cli.cancelled
                  THEN [cli EXCEPT !.pc = "done",
                                   !.signals = Append(@, "error")]
                  ELSE [cli EXCEPT !.pc = "done",
                                   !.signals = Append(@, "complete")]
    /\ UNCHANGED <<queue, active, completed, errors, metadata,
                   max_concurrent, detached, worker, fetch, disk, sync, pump,
                   output>>

\* cancel(), called once by cancel_download.
CliCancel ==
    /\ ~cli.cancelled
    /\ cli.pc # "done"
    /\ LET c1 == [cli EXCEPT !.cancelled = TRUE]
       IN  cli' = IF c1.process # "none" THEN Terminated(c1) ELSE c1
    /\ UNCHANGED <<queue, active, completed, errors, metadata,
                   max_concurrent, detached, worker, fetch, disk, sync, pump,
                   output>>

NextCli ==
    \/ CliPopen
    \/ \E line \in LineKinds : CliWrite(line)
    \/ \E code \in {0, 1} : CliExit(code)
    \/ CliReadLine
    \/ CliReadEnd
    \/ CliWait
    \/ CliCancel

(***************************************************************************)
(* The file a successful download reports: DownloadThread.run after the    *)
(* download loop (CLIDownloadWorker.run has the same statements)           *)
(***************************************************************************)

\* Files that may be in output_dir, with what os.path.getsize returns.
OutputFiles ==
    { [name |-> "video", ext |-> "mp4", size |-> 2],
      [name |-> "clip",  ext |-> "MP4", size |-> 2],
      [name |-> "video", ext |-> "m4a", size |-> 1],
      [name |-> "video", ext |-> "jpg", size |-> 3] }

\* self.downloaded_filename = None
NoFile == [name |-> "", ext |-> "", size |-> 0]

\* any(f.lower().endswith(ext) for ext in media_extensions)
MediaFile(f) ==
    LET lower == IF f.ext = "MP4" THEN "mp4" ELSE f.ext
    IN  lower \in {"mp4", "webm", "mkv", "mp3", "m4a", "opus"}

\* Mutant of downloaded_filename: every new file counts as a media file.
downloaded_filename_AnyFile(reported, new_files) ==
    IF reported # NoFile THEN {reported}
    ELSE IF Cardinality(new_files) = 1 THEN new_files
    ELSE IF Cardinality(new_files) > 1 THEN
             {f \in new_files : \A g \in new_files : g.size <= f.size}
    ELSE {NoFile}

\* The values self.downloaded_filename may have when complete_signal is
\* emitted; more than one when the largest media files have the same size
\* (max returns the first of them in the iteration order of a set).
downloaded_filename(reported, new_files) ==
    LET media_files == {f \in new_files : MediaFile(f)}
    IN  IF reported # NoFile THEN {reported}
        ELSE IF Cardinality(new_files) = 1 THEN new_files
        ELSE IF Cardinality(new_files) > 1 THEN
                 IF Cardinality(media_files) = 1 THEN media_files
                 ELSE IF Cardinality(media_files) > 1
                      THEN {f \in media_files :
                               \A g \in media_files : g.size <= f.size}
                      ELSE {NoFile}
        ELSE {NoFile}

\*   phase    : idle, download (files_before taken), done (complete_signal
\*              emitted)
\*   before   : files_before
\*   files    : the files in output_dir
\*   reported : the file name of the last 'finished' event of progress_hook
\*   filename : the file name sent with complete_signal
InitialOutput ==
    [phase |-> "idle", before |-> {}, files |-> {}, reported |-> NoFile,
     filename |-> NoFile]

\* files_before = set(os.listdir(self.output_dir))
OutputStart(before) ==
    /\ output.phase = "idle"
    /\ Cardinality(before) <= 1
    /\ output' = [output EXCEPT !.phase = "download", !.before = before,
                                !.files = before]
    /\ UNCHANGED <<queue, active, completed, errors, metadata,
                   max_concurrent, detached, worker, fetch, disk, sync, pump,
                   cli>>

\* A file appears in output_dir while the download runs.
OutputWrite(file) ==
    /\ output.phase = "download"
    /\ file \notin output.files
    /\ output' = [output EXCEPT !.files = @ \cup {file}]
    /\ UNCHANGED <<queue, active, completed, errors, metadata,
                   max_concurrent, detached, worker, fetch, disk, sync, pump,
                   cli>>

\* progress_hook is called with status 'finished' and a filename.
OutputReport(file) ==
    /\ output.phase = "download"
    /\ output.reported # file
    /\ output' = [output EXCEPT !.reported = file]
    /\ UNCHANGED <<queue, active, completed, errors, metadata,
                   max_concurrent, detached, worker, fetch, disk, sync, pump,
                   cli>>

\* The download loop is left: the directory is listed again, the file is
\* identified and complete_signal is emitted.
OutputIdentify ==
    /\ output.phase = "download"
    /\ \E file \in downloaded_filename(output.reported,
                                       output.files \ output.before) :
           output' = [output EXCEPT !.phase = "done", !.filename = file]
    /\ UNCHANGED <<queue, active, completed, errors, metadata,
                   max_concurrent, detached, worker, fetch, disk, sync, pump,
                   cli>>

NextOutput ==
    \/ \E before \in SUBSET OutputFiles : OutputStart(before)
    \/ \E file \in OutputFiles : OutputWrite(file)
    \/ \E file \in OutputFiles : OutputReport(file)
    \/ OutputIdentify


Init ==
    /\ queue = <<>>
    /\ active = EmptyDict
    /\ completed = <<>>
    /\ errors = <<>>
    /\ metadata = EmptyDict
    /\ max_concurrent = 2
    /\ detached = EmptyBag
    /\ worker = InitialWorker
    /\ fetch = InitialFetch
    /\ disk = InitialDisk
    /\ sync = InitialSync
    /\ pump = InitialPump
    /\ cli = InitialCli
    /\ output = InitialOutput

\* The state a handler leaves behind becomes the next state.
Commit(handled) ==
    \E s \in {handled} :
    /\ BagCardinality(s.detached) <= MaxDetached
    /\ queue' = s.queue
    /\ active' = s.active
    /\ completed' = s.completed
    /\ errors' = s.errors
    /\ metadata' = s.metadata
    /\ max_concurrent' = s.max_concurrent
    /\ detached' = s.detached
    /\ UNCHANGED others

\* add_download(url)
Submit(url) == Commit(add_download(Store, url))

\* cancel_download(url)
Cancel(url, outcome) == Commit(cancel_download(Store, url, outcome))

\* dismiss_error(url), called for an item shown as failed.
Dismiss(url) == InList(url, errors) /\ Commit(dismiss_error(Store, url))

\* dismiss_error(url), called for any key.
DismissAny(url) == Commit(dismiss_error(Store, url))

\* set_max_concurrent(value)
SetMaxConcurrent(value) == Commit(set_max_concurrent(Store, value))

\* The thread attached to _active[url] reaches complete_signal.emit
\* (kind = "complete") or error_signal.emit (kind = "error") and returns.
WorkerFinish(url, kind) ==
    /\ url \in DOMAIN active
    /\ active[url].running
    /\ active' = [active EXCEPT ![url] = Finish(@, kind)]
    /\ UNCHANGED <<queue, completed, errors, metadata, max_concurrent,
                   detached, others>>

\* The same for a thread that is no longer in _active.
DetachedFinish(thread, kind) ==
    /\ BagIn(thread, detached)
    /\ thread.running
    /\ detached' = (detached (-) SetToBag({thread}))
                       (+) SetToBag({Finish(thread, kind)})
    /\ UNCHANGED <<queue, active, completed, errors, metadata,
                   max_concurrent, others,
                   output>>

\* The slot a queued signal is delivered to.
Slot(s, kind, url, kept) ==
    IF kind = "complete" THEN on_complete(s, url) ELSE on_error(s, url, kept)

\* The GUI thread's event loop delivers the oldest queued signal of the
\* thread attached to _active[url].
Deliver(url) ==
    /\ url \in DOMAIN active
    /\ active[url].sig # <<>>
    /\ \E kept \in BOOLEAN :
           Commit(Slot([Store EXCEPT !.active[url].sig = Tail(@)],
                       Head(active[url].sig), url, kept))

\* The same for a thread that is no longer in _active.
DeliverDetached(thread) ==
    /\ BagIn(thread, detached)
    /\ thread.sig # <<>>
    /\ LET rest == [thread EXCEPT !.sig = Tail(@)]
           s0   == Detach([Store EXCEPT
                              !.detached = @ (-) SetToBag({thread})], rest)
       IN  \E kept \in BOOLEAN :
               Commit(Slot(s0, Head(thread.sig), thread.url, kept))

SignalKinds == {"complete", "error"}

Next ==
    \/ \E url \in RawUrls : Submit(url)
    \/ \E url \in Keys : \E outcome \in CancelOutcomesFor(Store, url) :
           Cancel(url, outcome)
    \/ \E url \in Keys : Dismiss(url)
    \/ \E value \in LimitInputs : SetMaxConcurrent(value)
    \/ \E url \in Keys, kind \in SignalKinds : WorkerFinish(url, kind)
    \/ \E thread \in BagToSet(detached), kind \in SignalKinds :
           DetachedFinish(thread, kind)
    \/ \E url \in Keys : Deliver(url)
    \/ \E thread \in BagToSet(detached) : DeliverDetached(thread)

Spec == Init /\ [][Next]_vars

\* Every running thread that is attached to _active reaches one of its
\* emits, and the GUI thread's event loop delivers every queued signal of
\* such a thread.
Fairness ==
    /\ \A url \in Keys :
          WF_vars(\E kind \in SignalKinds : WorkerFinish(url, kind))
    /\ \A url \in Keys : WF_vars(Deliver(url))

\* The scheduler with threads that finish and an event loop that runs.
SpecLive == Spec /\ Fairness

\* The same with dismiss_error called for keys that are not failed.
NextApi == Next \/ \E url \in Keys : DismissAny(url)

SpecApi == Init /\ [][NextApi]_vars

\* One download thread on its own.
SpecWorker == Init /\ [][NextWorker]_vars

\* One job's title on its own.
SpecFetch == Init /\ [][NextFetch]_vars

\* One active job's files on their own.
SpecDisk == Init /\ [][NextDisk]_vars

\* The handlers and the mutex on their own.
SpecSync == Init /\ [][NextSync]_vars

\* One call of _process_queue on its own.
SpecPump == Init /\ [][NextPump]_vars

\* One CLIDownloadWorker on its own.
SpecCli == Init /\ [][NextCli]_vars

\* The file one download reports on its own.
SpecOutput == Init /\ [][NextOutput]_vars

\* The scheduler with the limit left alone: it is whatever an earlier
\* set_max_concurrent on the empty scheduler made it.
InitFixed ==
    /\ Init!1 /\ Init!2 /\ Init!3 /\ Init!4 /\ Init!5 /\ Init!7 /\ Init!8 /\ Init!9
    /\ Init!10 /\ Init!11 /\ Init!12 /\ Init!13 /\ Init!14
    /\ max_concurrent \in {2} \cup {Max(1, Min(5, v)) : v \in LimitInputs}

NextFixed ==
    \/ \E url \in RawUrls : Submit(url)
    \/ \E url \in Keys : \E outcome \in CancelOutcomesFor(Store, url) :
           Cancel(url, outcome)
    \/ \E url \in Keys : Dismiss(url)
    \/ \E url \in Keys, kind \in SignalKinds : WorkerFinish(url, kind)
    \/ \E thread \in BagToSet(detached), kind \in SignalKinds :
           DetachedFinish(thread, kind)
    \/ \E url \in Keys : Deliver(url)
    \/ \E thread \in BagToSet(detached) : DeliverDetached(thread)

SpecFixed == InitFixed /\ [][NextFixed]_vars

(***************************************************************************)
(* Properties                                                              *)
(***************************************************************************)

NumActive == Cardinality(DOMAIN active)

Present(url) ==
    \/ InList(url, queue)
    \/ url \in DOMAIN active
    \/ InList(url, completed)
    \/ InList(url, errors)

\* C1: with the limit left unchanged, the number of active downloads never
\* exceeds max_concurrent.
C1_ActiveWithinLimit == NumActive <= max_concurrent

\* C1 witness: the limit is reached, a job waits behind it and an earlier
\* job has completed.
C1_Witness ==
    /\ NumActive = max_concurrent
    /\ queue # <<>>
    /\ completed # <<>>

\* C2 as claimed: the bound also holds when set_max_concurrent changes the
\* limit while downloads are active.
C2_ActiveWithinLimitAlways == ~(NumActive > max_concurrent)

\* C2 as amended: a step that leaves more downloads active than the limit
\* allows has admitted none: the excess are downloads that were running
\* before the limit was lowered.
C2_NoAdmissionAboveLimit ==
    [][NumActive' > max_concurrent' => DOMAIN active' \subseteq DOMAIN active]_vars

\* C2 witness: the limit was lowered below the number of running downloads
\* while another job waits.
C2_Witness ==
    /\ NumActive > max_concurrent
    /\ queue # <<>>

\* C3: a key is in at most one of pending, active, completed and failed.
C3_AtMostOneCollection ==
    \A url \in Keys :
        Cardinality({c \in {"pending", "active", "completed", "failed"} :
            \/ c = "pending"   /\ InList(url, queue)
            \/ c = "active"    /\ url \in DOMAIN active
            \/ c = "completed" /\ InList(url, completed)
            \/ c = "failed"    /\ InList(url, errors)}) <= 1

\* C4: add_download of a URL whose normalized key is already pending,
\* active, completed or failed returns False, raises nothing, starts no
\* prefetcher and no download thread, and leaves the four collections, the
\* metadata map and everything else as they were.
C4_DuplicateSubmitRejected ==
    \A url \in RawUrls :
        Present(get_clean_url(url)) =>
            add_download(Store, url) = [Store EXCEPT !.ret = "false"]

\* C4 witness: keys are held in pending, active, completed and failed at
\* once, so a duplicate of each kind can be submitted, in another URL shape
\* than the stored key.
C4_Witness ==
    /\ queue # <<>>
    /\ active # EmptyDict
    /\ completed # <<>>
    /\ errors # <<>>
    /\ \E url \in RawUrls : url.form = "short" /\ InList(get_clean_url(url), completed)

\* x stands before y in the list l.
Before(l, x, y) == \E i, j \in 1..Len(l) : i < j /\ l[i] = x /\ l[j] = y

\* The key enters _active in this step.
Admitted(url) == url \in DOMAIN active' /\ url \notin DOMAIN active

\* C5: admission is first in, first out.  In every step: a key that enters
\* the queue is put behind all keys already pending; two keys that stay
\* pending keep their order, whichever key is cancelled or admitted; and when
\* a key becomes active, no key that was pending ahead of it (or pending when
\* it was submitted) is still pending.
C5_FifoAdmission ==
    [][\A i \in 1..Len(queue) :
         LET a == queue[i]
         IN  /\ \A j \in (i + 1)..Len(queue) :
                  LET b == queue[j]
                  IN  /\ InList(a, queue') /\ InList(b, queue')
                            => Before(queue', a, b)
                      /\ Admitted(b) => ~InList(a, queue')
             /\ \A b \in Keys :
                  ~InList(b, queue) =>
                      /\ InList(a, queue') /\ InList(b, queue')
                            => Before(queue', a, b)
                      /\ Admitted(b) => ~InList(a, queue')]_vars

\* C5 witness: two keys are pending behind an active download, in the order
\* of their submission (C before A).
C5_Witness ==
    /\ queue = <<K("C"), K("A")>>
    /\ K("B") \in DOMAIN active
    /\ NumActive = max_concurrent

\* A completion or failure signal for the key url is delivered to the manager
\* in this step while url is active, from the thread of the active entry or
\* from an earlier thread of the same key.
CallbackForActive(url) ==
    /\ url \in DOMAIN active
    /\ \/ Deliver(url)
       \/ \E thread \in BagToSet(detached) :
              thread.url = url /\ DeliverDetached(thread)

\* The front pending key, and nothing else, moves to _active in this step,
\* in place of url.
FrontAdmitted(url) ==
    /\ queue' = Tail(queue)
    /\ DOMAIN active' = (DOMAIN active \ {url}) \cup {Head(queue)}
    /\ active'[Head(queue)] = NewThread(Head(queue))
    /\ metadata'[Head(queue)].status = "Starting"

C7_Scenario ==
    (queue = <<>> /\ active = EmptyDict /\ completed = <<>> /\ errors = <<>>
        /\ max_concurrent = 2) =>
    \A fa, fb, fc \in Forms :
        LET s1 == add_download(Store, [form |-> fa, id |-> "A"])
            s2 == add_download(s1, [form |-> fb, id |-> "B"])
            s3 == add_download(s2, [form |-> fc, id |-> "C"])
            s4 == on_complete(
                    [s3 EXCEPT !.active[K("A")] = Finish(@, "complete"),
                               !.active[K("A")].sig = <<>>], K("A"))
        IN  /\ s1.ret = "true" /\ s2.ret = "true" /\ s3.ret = "true"
            /\ DOMAIN s3.active = {K("A"), K("B")}
            /\ s3.queue = <<K("C")>>
            /\ s3.metadata[K("A")].status = "Starting"
            /\ s3.metadata[K("B")].status = "Starting"
            /\ s3.metadata[K("C")].status = "Queued"
            /\ s3.started = {K("A"), K("B")}
            /\ DOMAIN s4.active = {K("B"), K("C")}
            /\ s4.active[K("C")] = NewThread(K("C"))
            /\ s4.metadata[K("C")].status = "Starting"
            /\ s4.completed = <<K("A")>>
            /\ s4.queue = <<>>
            /\ s4.errors = <<>>

\* C7 witness: the final state of the scenario.
C7_Witness ==
    /\ max_concurrent = 2
    /\ DOMAIN active = {K("B"), K("C")}
    /\ completed = <<K("A")>>
    /\ queue = <<>>
    /\ errors = <<>>
    /\ metadata[K("A")].status = "Complete"
    /\ metadata[K("C")].status = "Starting"
    /\ detached = EmptyBag

\* C8: cancel_download of a pending key removes the key and its metadata
\* entry and creates no thread for it: after the call the key is neither
\* pending nor active and no thread object has appeared.  And a thread is
\* only ever created for a key that leaves the queue (or is submitted) and
\* becomes active in the same step, so the removed submission never gets
\* one.
C8_CancelPendingStartsNothing ==
    [][/\ \A i \in 1..Len(queue) :
            LET url == queue[i]
            IN  \A outcome \in CancelOutcomesFor(Store, url) :
                  url \notin DOMAIN active /\ Cancel(url, outcome)
                  => /\ ~InList(url, queue')
                     /\ url \notin DOMAIN active'
                     /\ url \notin DOMAIN metadata'
                     /\ url \notin cancel_download(Store, url, outcome).started
                     /\ detached' = detached
       /\ \A url \in DOMAIN active' :
            (active'[url].running
               /\ (url \notin DOMAIN active \/ active[url] # active'[url]))
            => /\ InList(url, queue) \/ ~Present(url)
               /\ ~InList(url, queue')]_vars

\* C8 witness: a pending key has been cancelled while another key is still
\* pending behind the active downloads: no trace of the key is left.
C8_Witness ==
    /\ queue = <<K("C")>>
    /\ DOMAIN active = {K("A")}
    /\ max_concurrent = 1
    /\ K("B") \notin DOMAIN metadata
    /\ completed = <<>> /\ errors = <<>> /\ detached = EmptyBag

\* C9: after cancel_download of a key that was pending, active, completed or
\* failed, the key is in none of the four collections and has no metadata
\* entry.
C9_CancelDestroys ==
    [][\A url \in Keys : \A outcome \in CancelOutcomes :
         Present(url) /\ Cancel(url, outcome)
            => ~Present(url)' /\ url \notin DOMAIN metadata']_vars

\* C10: a key whose active download has been cancelled, and that has not
\* been submitted again (its metadata entry still says Cancelled), does not
\* get into the completed or failed list, whatever its thread still
\* delivers.
C10_CancelledStaysOut ==
    [][\A url \in Keys :
         (url \in DOMAIN metadata /\ metadata[url].status = "Cancelled"
            /\ ~Present(url))
         => ~InList(url, completed') /\ ~InList(url, errors')]_vars

\* C11: dismiss_error of a key that is in _errors removes it from _errors
\* and from _metadata; dismiss_error of a key that is pending, active or
\* completed (and not failed) changes neither the four collections nor the
\* metadata map; in both cases no thread is touched.
C11_DismissOnlyErrors ==
    [][\A url \in Keys :
         Present(url) /\ DismissAny(url) =>
            /\ active' = active /\ detached' = detached
            /\ IF InList(url, errors)
               THEN /\ errors' = ListRemove(errors, url)
                    /\ url \notin DOMAIN metadata'
                    /\ queue' = queue /\ completed' = completed
               ELSE /\ errors' = errors /\ queue' = queue
                    /\ completed' = completed /\ metadata' = metadata]_vars

\* The call of ydl.download ended with a DownloadError of this class.
FailedAs(outcome, class) ==
    outcome.kind = "download_error" /\ Classify(outcome.msg) = class

\* C12: a run that has returned has emitted exactly one of complete_signal
\* and error_signal: one error_signal and no complete_signal when anything
\* failed, one complete_signal and no error_signal otherwise.
C12_ExactlyOneFailureCallback ==
    worker.pc = "done" =>
        IF worker.post = "ok"
        THEN worker.signals = <<"complete">>
        ELSE worker.signals = <<"error">>

\* C13: after one or two download calls that failed with a connection error
\* the run is still in the download loop and has emitted nothing; when the
\* third call succeeds (and the steps after the loop go through) the run
\* ends with one complete_signal and no error_signal; there are never more
\* than max_retries download calls.
C13_RetryBoundary ==
    /\ Len(worker.outcomes) <= max_retries
    /\ \A n \in 1..(max_retries - 1) :
         (Len(worker.outcomes) = n
            /\ \A i \in 1..n : FailedAs(worker.outcomes[i], "transient"))
         => worker.pc \in {"download", "killed"} /\ worker.signals = <<>>
    /\ (/\ Len(worker.outcomes) = max_retries
        /\ \A i \in 1..(max_retries - 1) :
              FailedAs(worker.outcomes[i], "transient")
        /\ worker.outcomes[max_retries].kind = "ok")
       => /\ worker.pc \in {"post", "done", "killed"}
          /\ worker.pc # "done" => worker.signals = <<>>
          /\ worker.pc = "done" /\ worker.post = "ok"
                => worker.signals = <<"complete">>

\* C13 witness: two connection errors, a successful third call, and the run
\* has completed.
C13_Witness ==
    /\ worker.pc = "done"
    /\ Len(worker.outcomes) = 3
    /\ FailedAs(worker.outcomes[1], "transient")
    /\ FailedAs(worker.outcomes[2], "transient")
    /\ worker.outcomes[3].kind = "ok"
    /\ worker.signals = <<"complete">>

\* A message of one of the terminal classes (HTTP 403, region, private or
\* age-restricted, other HTTP error) that is not a network error as well.
TerminalMessage(error_message) ==
    /\ "urlopen" \notin error_message
    /\ error_message \cap {"forbidden", "country", "private", "http"} # {}

\* C14: a download call that fails with a DownloadError of a terminal class
\* (forbidden, region, private / age, other HTTP error) is the last one: the
\* run has returned with exactly one error_signal; when it was the first
\* call, the job is reported after exactly one download attempt.
C14_TerminalNotRetried ==
    \A i \in 1..Len(worker.outcomes) :
        (/\ worker.outcomes[i].kind = "download_error"
         /\ TerminalMessage(worker.outcomes[i].msg)) =>
            /\ i = Len(worker.outcomes)
            /\ worker.pc = "done"
            /\ worker.signals = <<"error">>

\* C14 witness: the first download call was refused with HTTP 403 and the
\* run is over.
C14_Witness ==
    /\ worker.outcomes = <<DownloadError({"forbidden", "http"})>>
    /\ worker.pc = "done"
    /\ worker.signals = <<"error">>

\* Integers on both sides of the range 1..5, as arguments of
\* set_max_concurrent.
LimitProbes == {-3, 0, 1, 2, 3, 4, 5, 6, 9}

\* C15: the limit is always in 1..5, and in every reachable state
\* set_max_concurrent(n) stores min(5, max(1, n)), leaves every active key
\* active with the thread it had, leaves no thread behind and stops none,
\* and takes the keys it adds to _active from the front of the queue.
C15_ClampNoPreempt ==
    /\ max_concurrent \in 1..5
    /\ \A n \in LimitProbes :
         LET s == set_max_concurrent(Store, n)
         IN  /\ s.max_concurrent = Min(5, Max(1, n))
             /\ \A url \in DOMAIN active :
                    url \in DOMAIN s.active /\ s.active[url] = active[url]
             /\ s.detached = detached
             /\ s.completed = completed /\ s.errors = errors
             /\ \A url \in DOMAIN s.active \ DOMAIN active :
                    InList(url, queue) /\ ~InList(url, s.queue)

\* C15 witness: the limit has been lowered to 1 and the two downloads that
\* were running are still active, with a third key waiting.
C15_Witness ==
    /\ max_concurrent = 1
    /\ NumActive = 2
    /\ \A url \in DOMAIN active : active[url].running
    /\ queue # <<>>

\* The edges of the per-job status machine ('Downloading' is never stored
\* by the scheduler).
StatusEdges ==
    { <<"Queued", "Starting">>, <<"Queued", "Cancelled">>,
      <<"Starting", "Downloading">>, <<"Starting", "Complete">>,
      <<"Starting", "Error">>, <<"Starting", "Cancelled">>,
      <<"Downloading", "Complete">>, <<"Downloading", "Error">>,
      <<"Downloading", "Cancelled">> }

\* C16: the status of a job changes only along the edges of the status
\* machine.  A metadata entry that is written by a new add_download of the
\* key (the key was in none of the collections and is pending or active
\* afterwards) is a new job.
C16_StatusMachine ==
    [][\A url \in DOMAIN metadata \cap DOMAIN metadata' :
         metadata'[url].status # metadata[url].status =>
            \/ <<metadata[url].status, metadata'[url].status>> \in StatusEdges
            \/ ~Present(url)
                 /\ metadata'[url].status \in {"Queued", "Starting"}]_vars

\* C17: a key in _errors whose entry has status Error stays in _errors with
\* its entry and status Error in every step except dismiss_error or
\* cancel_download of that key.
C17_ErrorStaysUntilDismissed ==
    [][\A i \in 1..Len(errors) :
         LET url == errors[i]
         IN  (url \in DOMAIN metadata /\ metadata[url].status = "Error") =>
                IF InList(url, errors')
                THEN url \in DOMAIN metadata'
                        /\ metadata'[url].status = "Error"
                ELSE \/ Dismiss(url)
                     \/ \E outcome \in CancelOutcomesFor(Store, url) :
                            Cancel(url, outcome)]_vars

\* C20: cancel_download of a key whose download has been cancelled before
\* (the key is in none of the four collections) changes no collection and
\* no metadata entry and touches no thread.
C20_CancelIdempotent ==
    [][\A url \in Keys :
         ~Present(url) =>
            \A outcome \in CancelOutcomesFor(Store, url) :
                Cancel(url, outcome) =>
                    UNCHANGED <<queue, active, completed, errors, metadata,
                                detached,
                                output>>]_vars

\* C18: once the QuickMetadataThread of a submitted job has returned and
\* nothing it emitted is still queued, _on_quick_metadata_ready has sent
\* download_started for the key.
C18_PrefetchAlwaysShows ==
    (fetch.quick = "returned" /\ fetch.quick_sig = <<>>) => fetch.shown # <<>>

\* C19: while the key keeps its entry, a title that came from the site is
\* not replaced by a title the program made up.
C19_TitleOnlyImproves ==
    [][(fetch.entry /\ fetch'.entry /\ fetch.title.real)
          => fetch'.title.real]_vars

\* C21: once cancel_download of an active job has returned, none of the
\* partial files of the job (.part, .ytdl, format-id files) is left in
\* output_dir, whatever title was stored for the job.
C21_CancelLeavesNoArtifacts ==
    disk.phase = "cancelled" =>
        {file \in disk.files : file.name = disk.video} = {}

\* C28: cancel_download of an active job whose thread stopped within the
\* grace period deletes no file.
C28_CleanupOnlyAfterTerminate ==
    [][DiskCancel(TRUE) => disk'.files = disk.files]_vars

\* C22: none of queue_updated, download_started, download_progress,
\* download_complete and download_error is emitted while the mutex is
\* locked.
C22_NoEmitUnderLock ==
    (Busy /\ NextStep.op = "emit" /\ NextStep.arg \in Events) => ~sync.held

\* C23: a slot that calls a method of the DownloadManager from inside the
\* emission of an event never waits for the mutex forever.
C23_ReentryNeverBlocks == ~sync.blocked

\* C24: every write to the four collections, the metadata map and
\* max_concurrent is made with the mutex locked.
C24_WritesUnderLock ==
    (Busy /\ NextStep.op = "write") => sync.held

\* C25: a thread that _process_queue starts belongs to a key that is still
\* in _active, and every thread that is no longer in _active has been
\* stopped: cancel_download at any point after the admission leaves no
\* thread running for the key it removed.
C25_CancelReachesAdmittedWorker ==
    /\ pump.thread # None => pump.thread.url \in DOMAIN pump.s.active
    /\ \A thread \in BagToSet(pump.s.detached) : ~thread.running

\* C26: a signal of a thread that is no longer in _active (the thread of a
\* cancelled submission, or of a key that is not active) changes none of
\* the four collections when it is delivered: in particular it does not
\* move, complete, fail or detach the thread of a later submission of the
\* same key.
C26_CallbackOnlyOwnJob ==
    \A thread \in BagToSet(detached) :
        thread.sig # <<>> =>
            \A kept \in BOOLEAN :
                LET rest == [thread EXCEPT !.sig = Tail(@)]
                    s0   == Detach([Store EXCEPT
                                !.detached = @ (-) SetToBag({thread})], rest)
                    s    == Slot(s0, Head(thread.sig), thread.url, kept)
                IN  /\ s.queue = queue
                    /\ s.active = active
                    /\ s.completed = completed
                    /\ s.errors = errors

\* C27: every key in pending, active, completed or failed has an entry in
\* the metadata map.
C27_PresentHasMetadata ==
    \A url \in Keys : Present(url) => url \in DOMAIN metadata

\* C29: for a key whose active download the user cancelled (its entry
\* says Cancelled and the key is not active again), the signal the
\* cancelled thread still delivers makes the DownloadManager emit no
\* download_error.
C29_CancelIsNotAnError ==
    \A thread \in BagToSet(detached) :
        LET url == thread.url
        IN  (/\ thread.sig # <<>>
             /\ url \in DOMAIN metadata
             /\ metadata[url].status = "Cancelled"
             /\ url \notin DOMAIN active) =>
                \A kept \in BOOLEAN :
                    LET rest == [thread EXCEPT !.sig = Tail(@)]
                        s0   == Detach([Store EXCEPT
                                    !.detached = @ (-) SetToBag({thread})],
                                    rest)
                        s    == Slot(s0, Head(thread.sig), url, kept)
                    IN  <<"download_error", url>> \notin s.emitted

\* C30: a CLIDownloadWorker whose yt-dlp process was terminated by cancel()
\* (or by run() on finding the flag set) does not emit complete_signal.
C30_CancelledNeverCompletes ==
    cli.process = "terminated" =>
        \A i \in 1..Len(cli.signals) : cli.signals[i] # "complete"

\* C31: a run whose download calls all failed with a connection error
\* ("urlopen error" in the message) has made at most max_retries calls; after
\* the last of them it is over, and a run that returned did so after exactly
\* max_retries calls with one error_signal and no complete_signal.
C31_TransientRetriesEnd ==
    LET n == Len(worker.outcomes)
    IN  (/\ n >= 1
         /\ \A i \in 1..n :
               /\ worker.outcomes[i].kind = "download_error"
               /\ "urlopen" \in worker.outcomes[i].msg)
        => /\ n <= max_retries
           /\ n = max_retries => worker.pc \in {"done", "killed"}
           /\ worker.pc = "done" =>
                 n = max_retries /\ worker.signals = <<"error">>

\* C31 witness: three download calls, each failed with a connection error,
\* and the run has returned with one error_signal.
C31_Witness ==
    /\ worker.outcomes = <<DownloadError({"urlopen"}), DownloadError({"urlopen"}),
                           DownloadError({"urlopen"})>>
    /\ worker.pc = "done"
    /\ worker.signals = <<"error">>

\* C32: the extraction loop calls ydl.extract_info at most max_retries
\* times, whatever the calls do (raise, or return nothing).
C32_ExtractionBounded ==
    worker.extracts <= max_retries

\* C33: a download call that fails with a DownloadError whose message
\* carries a terminal marker (HTTP 403, region, private / age, any HTTP
\* error code), with or without "urlopen error" in it, is the last one, and
\* the run does not stay in the download loop.
C33_TerminalMarkerWins ==
    \A i \in 1..Len(worker.outcomes) :
        (/\ worker.outcomes[i].kind = "download_error"
         /\ worker.outcomes[i].msg
                \cap {"forbidden", "country", "private", "http"} # {})
        => /\ i = Len(worker.outcomes)
           /\ worker.pc \in {"done", "killed"}

\* C34: whenever keys are pending, at least max_concurrent downloads are
\* active (the handlers of the store run to their end within one step, so
\* every state is one in which no operation is in progress).
C34_WorkConserving ==
    queue # <<>> => NumActive >= max_concurrent

\* C39: every metadata entry whose dismissable flag is set has the status
\* Error.
C39_DismissableOnlyError ==
    \A url \in DOMAIN metadata :
        metadata[url].dismissable => metadata[url].status = "Error"

C36_LateResultIgnored ==
    [][(QuickReady /\ ~fetch.entry)
          => fetch' = [fetch EXCEPT !.quick_sig = Tail(@)]]_vars

\* C38: cancel_download of the active job deletes no file of another job's
\* video in the same output_dir, whatever the two titles are.
C38_CleanupIsolation ==
    [][\A file \in disk.files :
          file.name # disk.video => file \in disk'.files]_vars

\* C40: the percentage the progress callback emits, and the scheduler
\* stores, is at least 0 and at most 100.
C40_ProgressWithinRange ==
    /\ worker.progress.num >= 0
    /\ worker.progress.num <= 100 * worker.progress.den

\* C37: the file name sent with complete_signal is the one the engine
\* reported, if it reported one; else the only file that is new since
\* files_before was taken; else, with several new files, the only new file
\* with a media extension, or a largest one of the new media files.
C37_OutputIdentified ==
    output.phase = "done" =>
        LET new_files == output.files \ output.before
            media     == {f \in new_files : MediaFile(f)}
        IN  IF output.reported # NoFile
                THEN output.filename = output.reported
            ELSE IF Cardinality(new_files) = 1
                THEN output.filename \in new_files
            ELSE IF Cardinality(new_files) > 1 /\ Cardinality(media) >= 1
                THEN /\ output.filename \in media
                     /\ \A g \in media : g.size <= output.filename.size
            ELSE TRUE

\* C37 witness: nothing was reported, a larger file was there before, and
\* of the three new files, all media files, one of the two largest is the
\* one sent.
C37_Witness ==
    /\ output.phase = "done"
    /\ output.reported = NoFile
    /\ output.before = {[name |-> "video", ext |-> "jpg", size |-> 3]}
    /\ Cardinality(output.files) = 4
    /\ output.filename = [name |-> "clip", ext |-> "MP4", size |-> 2]

====
